---- MODULE Spec2Model ----
(***************************************************************************)
(* Model of src/deposit.py: the DepositionTransaction lifecycle and the    *)
(* Client operations that create transactions.  The repository (Zenodo)    *)
(* is an external HTTP service: every request either succeeds or returns   *)
(* a failure status, chosen by the environment.                            *)
(*                                                                         *)
(* Each method is modelled as a pure operator from the transaction's       *)
(* _state (and the HTTP outcome of the one request it may send) to a       *)
(* result [state, sent, outcome]; the actions apply these operators to     *)
(* the transaction objects of the process and record the call in lastOp.   *)
(***************************************************************************)
EXTENDS Integers, Sequences, FiniteSets, TLC

\* Bounds of the model.
MaxTx == 2          \* transaction objects created by the process
MaxReq == 2         \* successful publish / delete requests counted per transaction

\* The depositions of the repository, by id.  The draft d1 was created with
\* prereserve_doi, the draft d2 without: the two shapes of the metadata echo.
DepIds == {"d1", "d2"}
None == "None"
EmptyDict == [k \in {} |-> None]
Metadata(id) ==
    IF id = "d1" THEN [prereserve_doi |-> [doi |-> "10.5281/zenodo.123"]]
    ELSE EmptyDict

\* The raw deposition record the repository returns for a draft: the fields
\* of the JSON that the transaction reads.
DepositionJson(id) ==
    [id |-> id, metadata |-> Metadata(id), links |-> [bucket |-> <<"bucket", id>>]]

\* DepositionTransaction._State
Pending == "pending"
Committed == "committed"
Aborted == "aborted"
Leaked == "leaked"
States == {Pending, Committed, Aborted, Leaked}

\* Values of the `state` field of a fetched deposition record.
RemoteStates == {"unsubmitted", "inprogress", "done", "error"}

VARIABLES
    txs,      \* the DepositionTransaction objects created so far, in creation order
    lastOp    \* the call that produced the current state, with what it sent and how it ended

vars == <<txs, lastOp>>

----------------------------------------------------------------------------
\* Requests and call results

\* One HTTP request to endpoint `to`, sent on behalf of a transaction that was
\* in state `from` ("none": sent by the Client alone), and whether it succeeded.
Req(method, to, from, ok) == [method |-> method, to |-> to, from |-> from, ok |-> ok]

\* A call that returns normally / raises, leaving the transaction in state st.
Returned(st, sent) == [state |-> st, sent |-> sent, outcome |-> "ok"]
Raised(st, sent, err) == [state |-> st, sent |-> sent, outcome |-> err]

----------------------------------------------------------------------------
\* Client

\* Mutant of commit_deposition: raise_for_status() is missing.
commit_deposition_unchecked(deposition_id, st, ok) ==
    [sent |-> <<Req("publish", deposition_id, st, ok)>>, raised |-> FALSE]

\* Client.commit_deposition: POST .../actions/publish, raise_for_status().
commit_deposition(deposition_id, st, ok) ==
    [sent |-> <<Req("publish", deposition_id, st, ok)>>, raised |-> ~ok]

\* Client.abort_deposition: DELETE .../depositions/{id}, raise_for_status().
abort_deposition(deposition_id, st, ok) ==
    [sent |-> <<Req("delete", deposition_id, st, ok)>>, raised |-> ~ok]

\* Mutant of add_file_to_deposition: the response is checked with raise_for_status().
add_file_to_deposition_checked(bucket_link, st, ok) ==
    [sent |-> <<Req("upload", bucket_link, st, ok)>>, raised |-> ~ok]

\* Client.add_file_to_deposition: PUT {bucket}/{name}; logs, returns the response.
add_file_to_deposition(bucket_link, st, ok) ==
    [sent |-> <<Req("upload", bucket_link, st, ok)>>, raised |-> FALSE]

\* Client.get_deposition: GET .../depositions/{id}, raise_for_status().
get_deposition(deposition_id, ok) ==
    [sent |-> <<Req("get", deposition_id, "none", ok)>>, raised |-> ~ok]

----------------------------------------------------------------------------
\* DepositionTransaction

\* DepositionTransaction.__init__
NewTransaction(deposition_json) ==
    [json |-> deposition_json, state |-> Pending, published |-> 0, deleted |-> 0]

\* The accessors of the record.
deposition_id(tx) == tx.json.id

\* Mutant of reserved_deposition_doi: "doi" is looked up in the metadata
\* itself, where the repository puts none, instead of in prereserve_doi.
reserved_deposition_doi_of_metadata(tx) == None

reserved_deposition_doi(tx) ==
    IF "prereserve_doi" \notin DOMAIN tx.json.metadata THEN None
    ELSE tx.json.metadata.prereserve_doi.doi

bucket_link(tx) == tx.json.links.bucket

\* The four state predicates.
pending(tx) == tx.state = Pending
committed(tx) == tx.state = Committed
aborted(tx) == tx.state = Aborted
\* Mutant of leaked: the property was copied from aborted and compares with Aborted.
leaked_copied(tx) == tx.state = Aborted

leaked(tx) == tx.state = Leaked

\* Mutant of commit: the pending test is missing.
commit_unguarded(tx, ok) ==
    LET r == commit_deposition(deposition_id(tx), tx.state, ok)
    IN IF r.raised THEN Raised(tx.state, r.sent, "HTTPError")
                   ELSE Returned(Committed, r.sent)

\* Mutant of commit: _state is assigned before the publish request is sent.
commit_eager(tx, ok) ==
    IF ~pending(tx)
    THEN Returned(tx.state, <<>>)
    ELSE LET r == commit_deposition(deposition_id(tx), tx.state, ok)
         IN IF r.raised THEN Raised(Committed, r.sent, "HTTPError")
                        ELSE Returned(Committed, r.sent)

\* DepositionTransaction.commit
commit(tx, ok) ==
    IF ~pending(tx)
    THEN Returned(tx.state, <<>>)
    ELSE LET r == commit_deposition(deposition_id(tx), tx.state, ok)
         IN IF r.raised THEN Raised(tx.state, r.sent, "HTTPError")
                        ELSE Returned(Committed, r.sent)

\* Mutant of abort: the aborted branch, too, does not return.
abort_again(tx, ok) ==
    IF ~committed(tx) /\ leaked(tx) THEN Returned(tx.state, <<>>)
    ELSE LET r == abort_deposition(deposition_id(tx), tx.state, ok)
         IN IF r.raised THEN Raised(tx.state, r.sent, "HTTPError")
                        ELSE Returned(Aborted, r.sent)

\* Mutant of abort: the leaked branch, too, does not return.
abort_leaked(tx, ok) ==
    IF ~committed(tx) /\ ~leaked(tx) /\ aborted(tx) THEN Returned(tx.state, <<>>)
    ELSE LET r == abort_deposition(deposition_id(tx), tx.state, ok)
         IN IF r.raised THEN Raised(tx.state, r.sent, "HTTPError")
                        ELSE Returned(Aborted, r.sent)

\* DepositionTransaction.abort.  The committed branch logs its warning and,
\* unlike the leaked and aborted branches, does not return.
abort(tx, ok) ==
    IF ~committed(tx) /\ leaked(tx) THEN Returned(tx.state, <<>>)
    ELSE IF ~committed(tx) /\ aborted(tx) THEN Returned(tx.state, <<>>)
    ELSE LET r == abort_deposition(deposition_id(tx), tx.state, ok)
         IN IF r.raised THEN Raised(tx.state, r.sent, "HTTPError")
                        ELSE Returned(Aborted, r.sent)

\* Mutant of _expect_pending: a leaked transaction passes.
expect_pending_or_leaked(tx) == ~pending(tx) /\ ~leaked(tx)

\* DepositionTransaction._expect_pending: TRUE when it raises ValueError.
expect_pending(tx) == ~pending(tx)

\* Mutant of leak: the call to _expect_pending is missing.
leak_unchecked(tx) == Returned(Leaked, <<>>)

\* DepositionTransaction.leak
leak(tx) ==
    IF expect_pending(tx) THEN Raised(tx.state, <<>>, "ValueError")
    ELSE Returned(Leaked, <<>>)

\* DepositionTransaction.add_file
add_file(tx, ok) ==
    IF expect_pending(tx) THEN Raised(tx.state, <<>>, "ValueError")
    ELSE LET r == add_file_to_deposition(bucket_link(tx), tx.state, ok)
         IN IF r.raised THEN Raised(tx.state, r.sent, "HTTPError")
                        ELSE Returned(tx.state, r.sent)

\* The accessors: the properties of a transaction, by name.
Accessors ==
    {"deposition_id", "reserved_deposition_doi", "bucket_link",
     "pending", "committed", "aborted", "leaked"}

\* Reading property a of tx: the value it returns; nothing is assigned.
read(a, tx) ==
    [state |-> tx.state, sent |-> <<>>, outcome |-> "ok",
     value |-> CASE a = "deposition_id" -> deposition_id(tx)
                 [] a = "reserved_deposition_doi" -> reserved_deposition_doi(tx)
                 [] a = "bucket_link" -> bucket_link(tx)
                 [] a = "pending" -> pending(tx)
                 [] a = "committed" -> committed(tx)
                 [] a = "aborted" -> aborted(tx)
                 [] a = "leaked" -> leaked(tx)]

\* DepositionTransaction.__enter__
enter(tx) == Returned(tx.state, <<>>)

\* Mutant of __exit__: abort() is called whatever the state.
exit_unguarded(tx, ok) == abort(tx, ok)

\* DepositionTransaction.__exit__
exit(tx, ok) ==
    IF ~committed(tx) /\ ~leaked(tx) THEN abort(tx, ok)
    ELSE Returned(tx.state, <<>>)

----------------------------------------------------------------------------
\* Client operations that create transactions

\* What continue_deposition reads of a fetched record besides the draft itself.
Records == [submitted : BOOLEAN, state : RemoteStates]
NoRecord == [submitted |-> FALSE, state |-> "none"]

\* Mutant of start_new_deposition: raise_for_status() is missing.
start_new_deposition_unchecked(ok, id) ==
    [new |-> <<NewTransaction(DepositionJson(id))>>,
     sent |-> <<Req("create", "depositions", "none", ok)>>, outcome |-> "ok"]

\* Client.start_new_deposition: POST /deposit/depositions, raise_for_status(),
\* then wrap the response; the repository chooses the id of the new draft.
start_new_deposition(ok, id) ==
    LET sent == <<Req("create", "depositions", "none", ok)>>
    IN IF ~ok THEN [new |-> <<>>, sent |-> sent, outcome |-> "HTTPError"]
       ELSE [new |-> <<NewTransaction(DepositionJson(id))>>, sent |-> sent,
             outcome |-> "ok"]

\* Mutant of the test of continue_deposition: state 'error' is not refused.
not_in_progress_but_error(rec) == rec.submitted \/ rec.state \in {"done"}

\* Mutant of the test of continue_deposition: only state 'inprogress' passes.
not_in_progress_literally(rec) == rec.submitted \/ rec.state # "inprogress"

\* The test of continue_deposition on the fetched record.
not_in_progress(rec) == rec.submitted \/ rec.state \in {"done", "error"}

\* Client.continue_deposition: fetch, refuse a submitted / done / error record,
\* otherwise wrap the record.
continue_deposition(ok, id, rec) ==
    LET g == get_deposition(id, ok)
    IN IF g.raised THEN [new |-> <<>>, sent |-> g.sent, outcome |-> "HTTPError"]
       ELSE IF not_in_progress(rec)
            THEN [new |-> <<>>, sent |-> g.sent, outcome |-> "ValueError"]
            ELSE [new |-> <<NewTransaction(DepositionJson(id))>>, sent |-> g.sent,
                  outcome |-> "ok"]

----------------------------------------------------------------------------
\* State machine

\* Number of successful requests of one method among those a call sent.
Successes(sent, method) ==
    Cardinality({i \in DOMAIN sent : sent[i].method = method /\ sent[i].ok})

TxIds == 1..Len(txs)

\* What __exit__ is given: no exception, or the exception that left the with
\* block, with the call of this transaction that raised it (NoCause: other code).
NoCause == [op |-> "none", outcome |-> "none"]
NoExc == [raised |-> FALSE, cause |-> NoCause]

\* The exceptions that can be in flight when the with block of t is left: none,
\* one raised by other code of the block, or the one the last call on t raised.
InFlight(t) ==
    {NoExc, [raised |-> TRUE, cause |-> NoCause]}
    \cup (IF lastOp.tx = t /\ lastOp.outcome # "ok"
          THEN {[raised |-> TRUE,
                 cause |-> [op |-> lastOp.op, outcome |-> lastOp.outcome]]}
          ELSE {})

Init ==
    /\ txs = <<>>
    /\ lastOp = [op |-> "init", tx |-> 0, id |-> "none", pre |-> "none",
                 outcome |-> "ok", sent |-> <<>>, exc |-> FALSE,
                 cause |-> NoCause, value |-> None,
                 fetched |-> NoRecord, ntx |-> 0]

\* Mutant of CallOnTx: _state is a class attribute, shared by all transactions.
CallOnTx_shared_state(op, t, r, exc) ==
    /\ txs[t].published + Successes(r.sent, "publish") <= MaxReq
    /\ txs[t].deleted + Successes(r.sent, "delete") <= MaxReq
    /\ txs' = [u \in TxIds |->
                [txs[u] EXCEPT !.state = r.state,
                               !.published = @ + (IF u = t THEN Successes(r.sent, "publish") ELSE 0),
                               !.deleted = @ + (IF u = t THEN Successes(r.sent, "delete") ELSE 0)]]
    /\ lastOp' = [op |-> op, tx |-> t, id |-> deposition_id(txs[t]), pre |-> txs[t].state,
                  outcome |-> r.outcome, sent |-> r.sent, exc |-> exc.raised,
                  cause |-> exc.cause,
                  value |-> IF "value" \in DOMAIN r THEN r.value ELSE None,
                  fetched |-> NoRecord, ntx |-> Len(txs)]

\* A method call on transaction t whose result is r.
CallOnTx(op, t, r, exc) ==
    /\ txs[t].published + Successes(r.sent, "publish") <= MaxReq
    /\ txs[t].deleted + Successes(r.sent, "delete") <= MaxReq
    /\ txs' = [txs EXCEPT ![t].state = r.state,
                          ![t].published = @ + Successes(r.sent, "publish"),
                          ![t].deleted = @ + Successes(r.sent, "delete")]
    /\ lastOp' = [op |-> op, tx |-> t, id |-> deposition_id(txs[t]), pre |-> txs[t].state,
                  outcome |-> r.outcome, sent |-> r.sent, exc |-> exc.raised,
                  cause |-> exc.cause,
                  value |-> IF "value" \in DOMAIN r THEN r.value ELSE None,
                  fetched |-> NoRecord, ntx |-> Len(txs)]

\* A Client call that may create a transaction; r.new holds it when it does.
CallOnClient(op, id, rec, r) ==
    /\ Len(txs) + Len(r.new) <= MaxTx
    /\ txs' = txs \o r.new
    /\ lastOp' = [op |-> op, tx |-> IF r.new = <<>> THEN 0 ELSE Len(txs) + 1,
                  id |-> id, pre |-> "none", outcome |-> r.outcome,
                  sent |-> r.sent, exc |-> FALSE, cause |-> NoCause,
                  value |-> None, fetched |-> rec,
                  ntx |-> Len(txs)]

\* The ids the repository can give a new draft: those of no deposition the
\* process holds a transaction for.
FreshIds == DepIds \ {deposition_id(txs[t]) : t \in TxIds}

StartNewDeposition ==
    \E ok \in BOOLEAN :
        \E id \in IF ok THEN FreshIds ELSE {"none"} :
            CallOnClient("start_new_deposition", id, NoRecord,
                         start_new_deposition(ok, id))

ContinueDeposition ==
    \E ok \in BOOLEAN, id \in DepIds :
        \E rec \in IF ok THEN Records ELSE {NoRecord} :
            CallOnClient("continue_deposition", id, rec,
                         continue_deposition(ok, id, rec))

Commit(t) == \E ok \in BOOLEAN : CallOnTx("commit", t, commit(txs[t], ok), NoExc)

Abort(t) == \E ok \in BOOLEAN : CallOnTx("abort", t, abort(txs[t], ok), NoExc)

Leak(t) == CallOnTx("leak", t, leak(txs[t]), NoExc)

AddFile(t) == \E ok \in BOOLEAN : CallOnTx("add_file", t, add_file(txs[t], ok), NoExc)

\* DepositionTransaction.__enter__ returns self.
Enter(t) == CallOnTx("enter", t, enter(txs[t]), NoExc)

\* Leaving the with block, normally or with an exception in flight.
Exit(t) ==
    \E ok \in BOOLEAN, exc \in InFlight(t) :
        CallOnTx("exit", t, exit(txs[t], ok), exc)

\* Reading one of the properties of a transaction.
Access(t) == \E a \in Accessors : CallOnTx(a, t, read(a, txs[t]), NoExc)

Next ==
    \/ StartNewDeposition
    \/ ContinueDeposition
    \/ \E t \in TxIds : Commit(t)
    \/ \E t \in TxIds : Abort(t)
    \/ \E t \in TxIds : Leak(t)
    \/ \E t \in TxIds : AddFile(t)
    \/ \E t \in TxIds : Enter(t)
    \/ \E t \in TxIds : Exit(t)
    \/ \E t \in TxIds : Access(t)

Spec == Init /\ [][Next]_vars

TypeOK ==
    /\ Len(txs) <= MaxTx
    /\ \A t \in TxIds :
        /\ txs[t].json \in {DepositionJson(id) : id \in DepIds}
        /\ txs[t].state \in States
        /\ txs[t].published \in 0..MaxReq
        /\ txs[t].deleted \in 0..MaxReq

----------------------------------------------------------------------------
\* Properties

\* The requests of one method among those the last call sent.
Sent(method) == {i \in DOMAIN lastOp.sent : lastOp.sent[i].method = method}

\* The last call was method op on a transaction that was in state st.
Called(op, st) == lastOp.op = op /\ lastOp.pre = st

\* The last call sent nothing, left its transaction's state alone and returned.
NoOp ==
    /\ lastOp.sent = <<>>
    /\ txs[lastOp.tx].state = lastOp.pre
    /\ lastOp.outcome = "ok"

\* The last call raised ValueError, sent nothing and left the state alone.
DomainError ==
    /\ lastOp.sent = <<>>
    /\ txs[lastOp.tx].state = lastOp.pre
    /\ lastOp.outcome = "ValueError"

\* C1: abort() on a Committed transaction leaves the state Committed, sends no
\* delete request and does not raise.
C1_AbortOnCommittedIsNoOp == Called("abort", Committed) => NoOp

\* C2: Committed, Aborted and Leaked are terminal: no step changes the state
\* of a transaction that is not Pending.
C2_TerminalStatesNeverChange ==
    [][\A t \in TxIds : txs[t].state # Pending => txs'[t].state = txs[t].state]_vars

\* C3: every publish, delete or upload request sent on behalf of a transaction
\* is sent while the transaction is Pending.
C3_RequestsOnlyFromPending ==
    \A i \in DOMAIN lastOp.sent :
        lastOp.sent[i].method \in {"publish", "delete", "upload"}
            => lastOp.sent[i].from = Pending

\* C4: scope exit of a Pending transaction calls abort_deposition exactly
\* once, scope exit of a Committed or Leaked transaction calls it zero times,
\* whether or not an exception is in flight.
C4_ExitAbortsExactlyWhenPending ==
    lastOp.op = "exit" =>
        /\ lastOp.pre = Pending => Cardinality(Sent("delete")) = 1
        /\ lastOp.pre \in {Committed, Leaked} => Cardinality(Sent("delete")) = 0

\* C4 witness: an exceptional exit of a Pending transaction has sent its delete.
C4_Witness ==
    /\ Called("exit", Pending)
    /\ lastOp.exc
    /\ Cardinality(Sent("delete")) = 1

\* C5: commit() on a transaction that is not Pending sends no publish request,
\* leaves the state unchanged and does not raise; no transaction ever has a
\* second successful publish.
C5_CommitOutOfStateIsNoOp ==
    /\ (lastOp.op = "commit" /\ lastOp.pre # Pending) => NoOp
    /\ \A t \in TxIds : txs[t].published <= 1

\* C5 witness: a second commit() after a successful one.
C5_Witness ==
    /\ Called("commit", Committed)
    /\ txs[lastOp.tx].published = 1

\* C6: abort() on an Aborted transaction, called directly or by scope exit,
\* sends no delete request, leaves the state Aborted and does not raise; no
\* transaction ever has a second successful delete.
C6_AbortIsIdempotent ==
    /\ (lastOp.op \in {"abort", "exit"} /\ lastOp.pre = Aborted) => NoOp
    /\ \A t \in TxIds : txs[t].deleted <= 1

\* C6 witness: a scope exit after a successful abort().
C6_Witness ==
    /\ Called("exit", Aborted)
    /\ txs[lastOp.tx].deleted = 1

\* C7: leak() from Pending moves to Leaked without sending a request; from
\* Committed, Aborted or Leaked it raises ValueError and changes nothing.
C7_LeakOnlyFromPending ==
    lastOp.op = "leak" =>
        IF lastOp.pre = Pending
        THEN /\ txs[lastOp.tx].state = Leaked
             /\ lastOp.sent = <<>>
             /\ lastOp.outcome = "ok"
        ELSE DomainError

\* C7 witness: leak() refused on a Committed transaction.
C7_Witness == Called("leak", Committed) /\ lastOp.outcome = "ValueError"

\* C8: add_file() from Leaked, Committed or Aborted raises ValueError, sends
\* no upload and changes nothing; from Pending it sends exactly one upload
\* request, to the transaction's bucket link.
C8_AddFileOnlyFromPending ==
    lastOp.op = "add_file" =>
        IF lastOp.pre = Pending
        THEN /\ Len(lastOp.sent) = 1
             /\ lastOp.sent[1].method = "upload"
             /\ lastOp.sent[1].to = bucket_link(txs[lastOp.tx])
        ELSE DomainError

\* C8 witness: add_file() refused after leak().
C8_Witness == Called("add_file", Leaked) /\ lastOp.outcome = "ValueError"

\* C9: every call on a Leaked transaction (commit, abort, add_file, leak,
\* scope entry and exit) sends no request and leaves the state Leaked.
C9_LeakedSendsNothing ==
    (lastOp.tx # 0 /\ lastOp.pre = Leaked) =>
        /\ lastOp.sent = <<>>
        /\ txs[lastOp.tx].state = Leaked

\* C9 witness: abort() called on a Leaked transaction.
C9_Witness == Called("abort", Leaked) /\ txs[lastOp.tx].state = Leaked

\* C10: continue_deposition sends only the fetch; when the fetched record is
\* submitted or in state done or error it raises ValueError and creates no
\* transaction, and for every other fetched record it returns a new Pending
\* transaction for that deposition.
C10_ContinueRefusesFinished ==
    lastOp.op = "continue_deposition" =>
        /\ Len(lastOp.sent) = 1
        /\ lastOp.sent[1].method = "get"
        /\ lastOp.sent[1].ok =>
            IF lastOp.fetched.submitted \/ lastOp.fetched.state \in {"done", "error"}
            THEN /\ lastOp.outcome = "ValueError"
                 /\ lastOp.tx = 0
                 /\ Len(txs) = lastOp.ntx
            ELSE /\ lastOp.outcome = "ok"
                 /\ Len(txs) = lastOp.ntx + 1
                 /\ lastOp.tx = Len(txs)
                 /\ txs[lastOp.tx].state = Pending
                 /\ deposition_id(txs[lastOp.tx]) = lastOp.id

\* C10 witness: a submitted record was fetched and refused.
C10_Witness ==
    /\ lastOp.op = "continue_deposition"
    /\ lastOp.fetched.submitted
    /\ lastOp.outcome = "ValueError"
    /\ Len(txs) = lastOp.ntx

\* C11: start_new_deposition returns a transaction only when the create
\* request succeeded, and that transaction is Pending; when the create request
\* fails it raises the HTTP error and no transaction is created.
C11_StartCreatesOnlyOnSuccess ==
    lastOp.op = "start_new_deposition" =>
        /\ Len(lastOp.sent) = 1
        /\ lastOp.sent[1].method = "create"
        /\ IF lastOp.sent[1].ok
           THEN /\ lastOp.outcome = "ok"
                /\ Len(txs) = lastOp.ntx + 1
                /\ lastOp.tx = Len(txs)
                /\ txs[lastOp.tx].state = Pending
           ELSE /\ lastOp.outcome = "HTTPError"
                /\ lastOp.tx = 0
                /\ Len(txs) = lastOp.ntx

\* C11 witness: a create request failed and left no transaction behind.
C11_Witness ==
    /\ lastOp.op = "start_new_deposition"
    /\ ~lastOp.sent[1].ok
    /\ lastOp.outcome = "HTTPError"
    /\ txs = <<>>

\* C12: add_file() on a Pending transaction returns the response whether the
\* upload succeeded or failed, never raises, and leaves the transaction
\* Pending, so add_file(), commit() and abort() remain permitted.
C12_UploadFailureIsReturned ==
    Called("add_file", Pending) =>
        /\ lastOp.outcome = "ok"
        /\ Len(lastOp.sent) = 1
        /\ pending(txs[lastOp.tx])
        /\ ~expect_pending(txs[lastOp.tx])

\* C12 witness: a failed upload was returned, the transaction is still Pending.
C12_Witness ==
    /\ Called("add_file", Pending)
    /\ ~lastOp.sent[1].ok
    /\ lastOp.outcome = "ok"
    /\ pending(txs[lastOp.tx])

\* No two Pending transactions of the process hold the same deposition id.
OnePendingPerId ==
    \A t, u \in TxIds :
        (t # u /\ pending(txs[t]) /\ pending(txs[u]))
            => deposition_id(txs[t]) # deposition_id(txs[u])

\* C13 as stated: at most one Pending transaction exists for a deposition id
\* at any time.
C13_SoleOwner == OnePendingPerId

\* C13 as amended: every call keeps at most one Pending transaction per
\* deposition id, except continue_deposition(id) for an id that a Pending
\* transaction of the process already holds.
C13_OnlyContinueDuplicates ==
    [][LET held == \E t \in TxIds :
                      pending(txs[t]) /\ deposition_id(txs[t]) = lastOp'.id
       IN (OnePendingPerId /\ ~(lastOp'.op = "continue_deposition" /\ held))
              => OnePendingPerId']_vars

\* C13 witness: a draft whose first transaction was leaked has been resumed,
\* and the new transaction is the only Pending one for that id.
C13_Witness ==
    /\ lastOp.op = "continue_deposition"
    /\ lastOp.tx = 2
    /\ leaked(txs[1])
    /\ pending(txs[2])
    /\ deposition_id(txs[1]) = deposition_id(txs[2])
    /\ OnePendingPerId

\* C14: reserved_deposition_doi returns None when the metadata has no
\* prereserve_doi entry and the nested doi string when it has one; reading
\* any accessor, in any lifecycle state, sends nothing, changes no state and
\* does not raise.
C14_AccessorsArePure ==
    lastOp.op \in Accessors =>
        /\ NoOp
        /\ lastOp.op = "reserved_deposition_doi" =>
            LET metadata == txs[lastOp.tx].json.metadata
            IN IF "prereserve_doi" \in DOMAIN metadata
               THEN lastOp.value = metadata.prereserve_doi.doi
               ELSE lastOp.value = None

\* C14 witness: the reserved DOI read from a Committed transaction whose
\* record holds the prereserve_doi entry.
C14_Witness ==
    /\ Called("reserved_deposition_doi", Committed)
    /\ "prereserve_doi" \in DOMAIN txs[lastOp.tx].json.metadata
    /\ lastOp.value = "10.5281/zenodo.123"
    /\ committed(txs[lastOp.tx])

\* The last call sent a request of this method for its transaction's
\* deposition, and the request succeeded / failed.
Succeeded(method) ==
    \E i \in Sent(method) : lastOp.sent[i].ok /\ lastOp.sent[i].to = lastOp.id
Failed(method) == \E i \in Sent(method) : ~lastOp.sent[i].ok

\* C15: a call makes its transaction Committed only with a successful publish
\* request and Aborted only with a successful delete request; when the
\* publish or delete request fails, the call raises the HTTP error, has sent
\* exactly that one request, and the state is unchanged.
C15_StateFollowsRemoteOutcome ==
    lastOp.tx # 0 =>
        /\ (txs[lastOp.tx].state = Committed /\ lastOp.pre # Committed)
               => Succeeded("publish")
        /\ (txs[lastOp.tx].state = Aborted /\ lastOp.pre # Aborted)
               => Succeeded("delete")
        /\ (Failed("publish") \/ Failed("delete")) =>
               /\ lastOp.outcome = "HTTPError"
               /\ Len(lastOp.sent) = 1
               /\ txs[lastOp.tx].state = lastOp.pre

\* C15 witness: a publish request failed; commit() raised and the transaction
\* is still Pending.
C15_Witness ==
    /\ Called("commit", Pending)
    /\ Failed("publish")
    /\ lastOp.outcome = "HTTPError"
    /\ pending(txs[lastOp.tx])

\* The exception of a commit() whose publish request failed.
CommitFailed == [op |-> "commit", outcome |-> "HTTPError"]

\* C16: when the HTTP error of commit() leaves the with block, __exit__ finds
\* the transaction Pending and sends exactly one delete request; and after
\* any scope exit whose delete request, if one was sent, succeeded, the
\* transaction is Committed, Aborted or Leaked.
C16_ExitCleansUpFailedCommit ==
    lastOp.op = "exit" =>
        /\ lastOp.cause = CommitFailed =>
               /\ lastOp.pre = Pending
               /\ Cardinality(Sent("delete")) = 1
        /\ ~Failed("delete") => txs[lastOp.tx].state \in {Committed, Aborted, Leaked}

\* C16 witness: commit() raised, the exit that followed deleted the draft.
C16_Witness ==
    /\ Called("exit", Pending)
    /\ lastOp.exc
    /\ lastOp.cause = CommitFailed
    /\ Succeeded("delete")
    /\ aborted(txs[lastOp.tx])

\* The last call was continue_deposition(id) for a draft that a Leaked
\* transaction of the process holds, and it fetched a record that is not
\* submitted and not in state done or error.
ResumedLeakedDraft ==
    /\ lastOp.op = "continue_deposition"
    /\ lastOp.sent[1].ok
    /\ ~lastOp.fetched.submitted
    /\ lastOp.fetched.state \notin {"done", "error"}
    /\ \E t \in 1..lastOp.ntx :
           leaked(txs[t]) /\ deposition_id(txs[t]) = lastOp.id

\* C17: continue_deposition(id) on the draft of a Leaked transaction, whose
\* record is unsubmitted and not done or error, returns a new Pending
\* transaction for that id on which add_file() is permitted; and no step,
\* of the new transaction or any other, changes a Leaked transaction's state.
C17_LeakedDraftCanBeResumed ==
    [][/\ \A t \in TxIds : leaked(txs[t]) => leaked(txs'[t])
       /\ ResumedLeakedDraft' =>
              /\ lastOp'.outcome = "ok"
              /\ lastOp'.tx = lastOp'.ntx + 1
              /\ pending(txs'[lastOp'.tx])
              /\ deposition_id(txs'[lastOp'.tx]) = lastOp'.id
              /\ \A ok \in BOOLEAN : add_file(txs'[lastOp'.tx], ok).outcome = "ok"]_vars

\* C17 witness: the first transaction of a draft was leaked, the draft was
\* resumed, and add_file() on the new transaction went through while the
\* first is still Leaked.
C17_Witness ==
    /\ Called("add_file", Pending)
    /\ lastOp.tx = 2
    /\ lastOp.outcome = "ok"
    /\ Len(lastOp.sent) = 1
    /\ leaked(txs[1])
    /\ deposition_id(txs[1]) = deposition_id(txs[2])

\* The state predicates that are true of a transaction.
TruePredicates(tx) ==
    {p \in {"pending", "committed", "aborted", "leaked"} : read(p, tx).value}

\* C18: of every transaction exactly one of pending, committed, aborted and
\* leaked is true, and a transaction just returned by start_new_deposition or
\* continue_deposition has pending true.
C18_ExactlyOnePredicate ==
    /\ \A t \in TxIds : Cardinality(TruePredicates(txs[t])) = 1
    /\ (lastOp.op \in {"start_new_deposition", "continue_deposition"} /\ lastOp.tx # 0)
           => TruePredicates(txs[lastOp.tx]) = {"pending"}

\* C18 witness: a transaction was just created while an earlier one has
\* reached Aborted.
C18_Witness ==
    /\ lastOp.op \in {"start_new_deposition", "continue_deposition"}
    /\ lastOp.tx = 2
    /\ TruePredicates(txs[2]) = {"pending"}
    /\ TruePredicates(txs[1]) = {"aborted"}

====
